---- MODULE Spec2Model ----
(***************************************************************************)
(* A model of src/client.py: the FlowerClient adapter (set_parameters,     *)
(* get_parameters, fit, evaluate) and the client factory                   *)
(* generate_client_fn.                                                     *)
(*                                                                         *)
(* Numbers.  Array elements are integers standing for real numbers.  A     *)
(* numpy array is a record [dtype, data]; data is a sequence, its length   *)
(* is the array's (one-dimensional) shape.  A torch tensor of the model is *)
(* a sequence of float32 values.  Zero-dimensional arrays are outside the  *)
(* model.                                                                  *)
(***************************************************************************)
EXTENDS Integers, Sequences, FiniteSets, TLC

VARIABLES trainloaders, valloaders, clients, spawn, last, ncalls

vars == <<trainloaders, valloaders, clients, spawn, last, ncalls>>

(* ------------------------------ bounds -------------------------------- *)

\* how many clients the simulation engine spawns through client_fn
MaxClients == 2

\* how many set_parameters/get_parameters/fit/evaluate calls are made in all
MaxCalls == 1

None == "None"

\* what a call that raises, or returns None, gives
NoResult == <<>>

Min(a, b) == IF a < b THEN a ELSE b

Abs(x) == IF x < 0 THEN 0 - x ELSE x

(* --------------------------- float32 values --------------------------- *)

\* bits of the float32 significand: every integer of magnitude up to
\* 2^F32Mantissa is a float32, above it only multiples of the unit in the
\* last place are
F32Mantissa == 24

RECURSIVE Ulp(_)
Ulp(x) == IF Abs(x) < 2 ^ F32Mantissa THEN 1 ELSE 2 * Ulp(Abs(x) \div 2)

\* round to nearest float32, ties to the even significand
RoundToMultiple(x, u) ==
    LET q == x \div u
        r == x % u
    IN  IF 2 * r < u THEN q * u
        ELSE IF 2 * r > u THEN (q + 1) * u
        ELSE IF q % 2 = 0 THEN q * u ELSE (q + 1) * u

ToFloat32(x) == IF x < 0 THEN 0 - RoundToMultiple(0 - x, Ulp(x))
                ELSE RoundToMultiple(x, Ulp(x))

IsFloat32(x) == ToFloat32(x) = x

\* torch.Tensor(v): a float32 tensor with the shape of the array v, each
\* element converted to float32
TorchTensor(v) == [i \in 1..Len(v.data) |-> ToFloat32(v.data[i])]

\* val.cpu().numpy(): the array sharing the tensor's dtype and elements
Numpy(val) == [dtype |-> "float32", data |-> val]

(* ------------------- the model class and the data --------------------- *)

\* Predictor().state_dict().keys(), in the order the library lists them
StateKeys == <<"fc.weight", "fc.bias">>

KeySet == {StateKeys[i] : i \in 1..Len(StateKeys)}

\* the shape of each state entry of Predictor
StateShape == [k \in KeySet |-> IF k = "fc.weight" THEN 2 ELSE 1]

\* Predictor(): "a model that is randomly initialised at first"
RandomInit ==
    { [k \in KeySet |-> [i \in 1..StateShape[k] |-> c]] : c \in {6, 7} }

\* what training and testing compute is kept within 0..ValueMod-1
ValueMod == 5

\* a DataLoader over `examples` samples with contents `data`
DataLoader(data, examples, batch_size) ==
    [data |-> data, examples |-> examples, batch_size |-> batch_size]

\* len(loader): the number of batches of the loader (drop_last is False)
LoaderLen(loader) ==
    (loader.examples + loader.batch_size - 1) \div loader.batch_size

\* prepare_dataset: the lists of train and validation loaders, per client
LoaderLists ==
    { << <<DataLoader(1, 4, 2), DataLoader(2, 3, 1)>>,
         <<DataLoader(3, 2, 2), DataLoader(4, 5, 3), DataLoader(5, 1, 1)>> >>,
      << <<DataLoader(1, 4, 2), DataLoader(2, 3, 1), DataLoader(6, 2, 1)>>,
         <<DataLoader(3, 2, 2), DataLoader(4, 5, 3)>> >> }

\* torch.optim.SGD(params, lr, momentum): a new optimiser without momentum
\* buffers
SGD(lr, momentum) == [lr |-> lr, momentum |-> momentum]

\* train(model, trainloader, optim, epochs, device): the state after
\* training, a function of the state before, the data and the optimiser
Train(model, loader, optim, epochs) ==
    [k \in KeySet |->
        [i \in 1..Len(model[k]) |->
            (model[k][i] + i + optim.momentum
               + optim.lr * epochs * LoaderLen(loader) + loader.data)
            % ValueMod]]

RECURSIVE SumSeq(_)
SumSeq(s) == IF s = <<>> THEN 0 ELSE Head(s) + SumSeq(Tail(s))

\* test(model, valloader, device): the pair (loss, mean_loss); the model is
\* only read
Test(model, loader) ==
    LET total == SumSeq(model["fc.weight"]) + 2 * SumSeq(model["fc.bias"])
                   + loader.data
        loss == total % ValueMod
    IN  <<loss, loss \div LoaderLen(loader)>>

(* --------------------------- library calls ---------------------------- *)

\* zip(a, b): pairs up to the length of the shorter sequence
Zip(a, b) == [i \in 1..Min(Len(a), Len(b)) |-> <<a[i], b[i]>>]

\* OrderedDict({k: torch.Tensor(v) for k, v in params_dict})
TensorDict(params_dict) ==
    LET ks == {params_dict[i][1] : i \in 1..Len(params_dict)}
    IN  [k \in ks |->
            LET i == CHOOSE j \in 1..Len(params_dict) :
                        /\ params_dict[j][1] = k
                        /\ \A h \in 1..Len(params_dict) :
                              params_dict[h][1] = k => h <= j
            IN  TorchTensor(params_dict[i][2])]

\* model.load_state_dict(state_dict, strict): every entry whose shape
\* matches is copied; a mismatched shape, and under strict a missing or an
\* unexpected key, is reported after the copying, by raising RuntimeError
LoadStateDict(model, state_dict, strict) ==
    LET given == DOMAIN state_dict
        missing == KeySet \ given
        unexpected == given \ KeySet
        mismatched == {k \in KeySet \cap given :
                          Len(state_dict[k]) # Len(model[k])}
    IN  [model |-> [k \in KeySet |->
                       IF k \in given /\ k \notin mismatched
                       THEN state_dict[k] ELSE model[k]],
         raised |-> \/ mismatched # {}
                    \/ strict /\ (missing # {} \/ unexpected # {})]

(* ----------------------------- FlowerClient --------------------------- *)

\* FlowerClient.__init__, predictor being the outcome of Predictor()
FlowerClient(cid, trainloader, valloader, predictor) ==
    [cid |-> cid, trainloader |-> trainloader, valloader |-> valloader,
     model |-> predictor]

\* set_parameters with strict=False: missing keys go unreported
set_parameters_lenient(self, parameters) ==
    LET params_dict == Zip(StateKeys, parameters)
        state_dict == TensorDict(params_dict)
        loaded == LoadStateDict(self.model, state_dict, FALSE)
    IN  [self |-> [self EXCEPT !.model = loaded.model],
         raised |-> loaded.raised]

\* set_parameters pairing only the first key, loaded with strict=False
set_parameters_first_key(self, parameters) ==
    LET params_dict == Zip(SubSeq(StateKeys, 1, 1), parameters)
        state_dict == TensorDict(params_dict)
        loaded == LoadStateDict(self.model, state_dict, FALSE)
    IN  [self |-> [self EXCEPT !.model = loaded.model],
         raised |-> loaded.raised]

\* FlowerClient.set_parameters: the model afterwards, and whether it raised
set_parameters(self, parameters) ==
    LET params_dict == Zip(StateKeys, parameters)
        state_dict == TensorDict(params_dict)
        loaded == LoadStateDict(self.model, state_dict, TRUE)
    IN  [self |-> [self EXCEPT !.model = loaded.model],
         raised |-> loaded.raised]

\* get_parameters listing the state entries in reverse key order
get_parameters_reversed(self, config) ==
    [i \in 1..Len(StateKeys) |->
        Numpy(self.model[StateKeys[Len(StateKeys) + 1 - i]])]

\* FlowerClient.get_parameters: the state entries as arrays, in key order
get_parameters(self, config) ==
    [i \in 1..Len(StateKeys) |-> Numpy(self.model[StateKeys[i]])]

\* a Python dict, as a function from its keys
EmptyDict == [k \in {} |-> None]

HasKey(dict, k) == k \in DOMAIN dict

\* float(loss): the float32 losses of the model are floats unchanged
PyFloat(x) == x

\* what a call gives: the client afterwards, "returned" with the result or
\* "raised" with the exception, and the calls made on the way, in order
Returned(self, result, calls) ==
    [self |-> self, out |-> "returned", err |-> None, result |-> result,
     calls |-> calls]

Raised(self, err, calls) ==
    [self |-> self, out |-> "raised", err |-> err, result |-> NoResult,
     calls |-> calls]

Call(fn, args) == [fn |-> fn, args |-> args]

\* fit training on the validation loader
fit_valloader(self, parameters, config) ==
    LET loaded == set_parameters(self, parameters)
        c1 == <<Call("set_parameters", <<parameters>>)>>
    IN  IF loaded.raised THEN Raised(loaded.self, "RuntimeError", c1)
        ELSE IF ~(HasKey(config, "lr") /\ HasKey(config, "momentum")
                     /\ HasKey(config, "local_epochs"))
        THEN Raised(loaded.self, "KeyError", c1)
        ELSE
        LET optim == SGD(config["lr"], config["momentum"])
            epochs == config["local_epochs"]
            c2 == Append(c1, Call("SGD", <<config["lr"], config["momentum"]>>))
            c3 == Append(c2, Call("train",
                      <<loaded.self.model, self.valloader, optim, epochs>>))
            trained == [loaded.self EXCEPT !.model =
                           Train(loaded.self.model, self.valloader,
                                 optim, epochs)]
            c4 == Append(c3, Call("get_parameters", <<EmptyDict>>))
        IN  Returned(trained,
                     <<get_parameters(trained, EmptyDict),
                       LoaderLen(self.trainloader), EmptyDict>>,
                     c4)

\* fit reading the config before it loads the parameters
fit_config_first(self, parameters, config) ==
    IF ~(HasKey(config, "lr") /\ HasKey(config, "momentum")
            /\ HasKey(config, "local_epochs"))
    THEN Raised(self, "KeyError", <<>>)
    ELSE
    LET loaded == set_parameters(self, parameters)
        c1 == <<Call("set_parameters", <<parameters>>)>>
    IN  IF loaded.raised THEN Raised(loaded.self, "RuntimeError", c1)
        ELSE
        LET optim == SGD(config["lr"], config["momentum"])
            epochs == config["local_epochs"]
            c2 == Append(c1, Call("SGD", <<config["lr"], config["momentum"]>>))
            c3 == Append(c2, Call("train",
                      <<loaded.self.model, self.trainloader, optim, epochs>>))
            trained == [loaded.self EXCEPT !.model =
                           Train(loaded.self.model, self.trainloader,
                                 optim, epochs)]
            c4 == Append(c3, Call("get_parameters", <<EmptyDict>>))
        IN  Returned(trained,
                     <<get_parameters(trained, EmptyDict),
                       LoaderLen(self.trainloader), EmptyDict>>,
                     c4)

\* FlowerClient.fit
fit(self, parameters, config) ==
    LET loaded == set_parameters(self, parameters)
        c1 == <<Call("set_parameters", <<parameters>>)>>
    IN  IF loaded.raised THEN Raised(loaded.self, "RuntimeError", c1)
        ELSE IF ~HasKey(config, "lr") THEN Raised(loaded.self, "KeyError", c1)
        ELSE IF ~HasKey(config, "momentum")
        THEN Raised(loaded.self, "KeyError", c1)
        ELSE IF ~HasKey(config, "local_epochs")
        THEN Raised(loaded.self, "KeyError", c1)
        ELSE
        LET lr == config["lr"]
            momentum == config["momentum"]
            epochs == config["local_epochs"]
            optim == SGD(lr, momentum)
            c2 == Append(c1, Call("SGD", <<lr, momentum>>))
            c3 == Append(c2, Call("train",
                      <<loaded.self.model, self.trainloader, optim, epochs>>))
            trained == [loaded.self EXCEPT !.model =
                           Train(loaded.self.model, self.trainloader,
                                 optim, epochs)]
            c4 == Append(c3, Call("get_parameters", <<EmptyDict>>))
        IN  Returned(trained,
                     <<get_parameters(trained, EmptyDict),
                       LoaderLen(self.trainloader), EmptyDict>>,
                     c4)

\* evaluate testing the model before it loads the parameters
evaluate_test_first(self, parameters, config) ==
    LET t == Test(self.model, self.valloader)
        c1 == <<Call("test", <<self.model, self.valloader>>)>>
        loaded == set_parameters(self, parameters)
        c2 == Append(c1, Call("set_parameters", <<parameters>>))
    IN  IF loaded.raised THEN Raised(loaded.self, "RuntimeError", c2)
        ELSE Returned(loaded.self,
                      <<PyFloat(t[1]), LoaderLen(self.valloader),
                        [cid |-> self.cid, mean_loss |-> t[2]]>>,
                      c2)

\* evaluate reporting the loss as mean_loss too
evaluate_mean_is_loss(self, parameters, config) ==
    LET loaded == set_parameters(self, parameters)
        c1 == <<Call("set_parameters", <<parameters>>)>>
    IN  IF loaded.raised THEN Raised(loaded.self, "RuntimeError", c1)
        ELSE
        LET t == Test(loaded.self.model, self.valloader)
            c2 == Append(c1, Call("test",
                      <<loaded.self.model, self.valloader>>))
        IN  Returned(loaded.self,
                     <<PyFloat(t[1]), LoaderLen(self.valloader),
                       [cid |-> self.cid, mean_loss |-> t[1]]>>,
                     c2)

\* evaluate training the model for one epoch after testing it
evaluate_trains(self, parameters, config) ==
    LET loaded == set_parameters(self, parameters)
        c1 == <<Call("set_parameters", <<parameters>>)>>
    IN  IF loaded.raised THEN Raised(loaded.self, "RuntimeError", c1)
        ELSE
        LET t == Test(loaded.self.model, self.valloader)
            c2 == Append(c1, Call("test",
                      <<loaded.self.model, self.valloader>>))
            trained == [loaded.self EXCEPT !.model =
                           Train(loaded.self.model, self.valloader,
                                 SGD(1, 0), 1)]
        IN  Returned(trained,
                     <<PyFloat(t[1]), LoaderLen(self.valloader),
                       [cid |-> self.cid, mean_loss |-> t[2]]>>,
                     c2)

\* FlowerClient.evaluate
evaluate(self, parameters, config) ==
    LET loaded == set_parameters(self, parameters)
        c1 == <<Call("set_parameters", <<parameters>>)>>
    IN  IF loaded.raised THEN Raised(loaded.self, "RuntimeError", c1)
        ELSE
        LET t == Test(loaded.self.model, self.valloader)
            loss == t[1]
            mean_loss == t[2]
            c2 == Append(c1, Call("test",
                      <<loaded.self.model, self.valloader>>))
        IN  Returned(loaded.self,
                     <<PyFloat(loss), LoaderLen(self.valloader),
                       [cid |-> self.cid, mean_loss |-> mean_loss]>>,
                     c2)

(* ------------------------------ the factory --------------------------- *)

Digits == <<"0", "1", "2", "3", "4", "5", "6", "7", "8", "9">>

IsDigit(ch) == \E d \in 1..Len(Digits) : Digits[d] = ch

DigitValue(ch) == (CHOOSE d \in 1..Len(Digits) : Digits[d] = ch) - 1

RECURSIVE DigitsValue(_)
DigitsValue(s) ==
    IF s = <<>> THEN 0
    ELSE 10 * DigitsValue(SubSeq(s, 1, Len(s) - 1)) + DigitValue(s[Len(s)])

AllDigits(s) == s # <<>> /\ \A i \in 1..Len(s) : IsDigit(s[i])

\* int(cid) on a string of digits, signs and letters (no blanks, no
\* underscores): an optional sign, then digits; anything else raises
\* ValueError
PyInt(s) ==
    IF AllDigits(s) THEN [ok |-> TRUE, value |-> DigitsValue(s)]
    ELSE IF s # <<>> /\ Head(s) \in {"-", "+"} /\ AllDigits(Tail(s))
    THEN [ok |-> TRUE,
          value |-> IF Head(s) = "-" THEN 0 - DigitsValue(Tail(s))
                    ELSE DigitsValue(Tail(s))]
    ELSE [ok |-> FALSE, value |-> 0]

\* list[k]: a negative k counts from the end; out of range raises
\* IndexError
PyIndex(list, k) ==
    IF 0 <= k /\ k < Len(list) THEN [ok |-> TRUE, value |-> list[k + 1]]
    ELSE IF k < 0 /\ 0 - k <= Len(list)
    THEN [ok |-> TRUE, value |-> list[Len(list) + k + 1]]
    ELSE [ok |-> FALSE, value |-> None]

\* client_fn taking the validation loader from the train loaders
client_fn_same_list(tls, vls, cid, predictor) ==
    LET n == PyInt(cid)
    IN  IF ~n.ok THEN [out |-> "raised", err |-> "ValueError", client |-> None]
        ELSE
        LET t == PyIndex(tls, n.value)
        IN  IF ~t.ok
            THEN [out |-> "raised", err |-> "IndexError", client |-> None]
            ELSE [out |-> "returned", err |-> None,
                  client |-> FlowerClient(cid, t.value, t.value, predictor)]

\* client_fn(cid) within generate_client_fn(tls, vls); predictor is the
\* outcome of Predictor() in the constructor
client_fn(tls, vls, cid, predictor) ==
    LET n == PyInt(cid)
    IN  IF ~n.ok THEN [out |-> "raised", err |-> "ValueError", client |-> None]
        ELSE
        LET t == PyIndex(tls, n.value)
            v == PyIndex(vls, n.value)
        IN  IF ~t.ok \/ ~v.ok
            THEN [out |-> "raised", err |-> "IndexError", client |-> None]
            ELSE [out |-> "returned", err |-> None,
                  client |-> FlowerClient(cid, t.value, v.value, predictor)]

\* the client identifiers the engine passes
CidStrings ==
    { <<"0">>, <<"1">>, <<"2">>, <<"x">> }

\* generate_client_fn: the function that spawns a client from its cid
generate_client_fn(tls, vls) ==
    [cid \in CidStrings, predictor \in RandomInit |->
        client_fn(tls, vls, cid, predictor)]

(* ------------------------------- inputs ------------------------------- *)

Array(dtype, data) == [dtype |-> dtype, data |-> data]

\* one more than the largest integer below which every integer is a float32
NotFloat32 == 2 ^ F32Mantissa + 1

\* parameter lists the server sends: matching the model; matching with
\* float64 values; one array short; one array long; a wrong shape in the
\* second array
ParamLists ==
    { << Array("float32", <<1, 2>>), Array("float32", <<3>>) >>,
      << Array("float64", <<NotFloat32, 0>>), Array("float64", <<1>>) >>,
      << Array("float32", <<1, 2>>) >>,
      << Array("float32", <<2, 2>>), Array("float32", <<0>>),
         Array("float32", <<4>>) >>,
      << Array("float32", <<4, 4>>), Array("float32", <<1, 1>>) >> }

ConfigKeys == {"lr", "momentum", "local_epochs"}

FullConfigs ==
    { [lr |-> 1, momentum |-> 0, local_epochs |-> 2],
      [lr |-> 2, momentum |-> 1, local_epochs |-> 3] }

Restrict(f, S) == [k \in S |-> f[k]]

\* configs the server sends: complete (with the non-negative lr and momentum
\* the optimiser accepts), or lacking one key
Configs ==
    FullConfigs
    \cup { Restrict([lr |-> 1, momentum |-> 0, local_epochs |-> 2],
                    ConfigKeys \ {k}) : k \in ConfigKeys }

(* ------------------------------ the system ---------------------------- *)

NoCall == [op |-> None]

NoSpawn == [cid |-> <<>>, out |-> None, err |-> None, index |-> 0]

Init ==
    /\ \E ll \in LoaderLists : trainloaders = ll[1] /\ valloaders = ll[2]
    /\ clients = <<>>
    /\ spawn = NoSpawn
    /\ last = NoCall
    /\ ncalls = 0

\* the engine spawns a client: generate_client_fn(...)(cid)
Spawn(cid, predictor) ==
    /\ Len(clients) < MaxClients
    /\ LET r == generate_client_fn(trainloaders, valloaders)[cid, predictor]
       IN  /\ spawn' = [cid |-> cid, out |-> r.out, err |-> r.err,
                        index |-> IF r.out = "returned"
                                  THEN Len(clients) + 1 ELSE 0]
           /\ clients' = IF r.out = "returned"
                         THEN Append(clients, r.client) ELSE clients
    /\ UNCHANGED <<trainloaders, valloaders, last, ncalls>>

Record(op, c, parameters, config, r) ==
    [op |-> op, client |-> c, parameters |-> parameters, config |-> config,
     pre |-> clients[c].model, out |-> r.out, err |-> r.err,
     result |-> r.result, calls |-> r.calls]

Called(op, c, parameters, config, r) ==
    /\ clients' = [clients EXCEPT ![c] = r.self]
    /\ last' = Record(op, c, parameters, config, r)
    /\ ncalls' = ncalls + 1
    /\ UNCHANGED <<trainloaders, valloaders, spawn>>

SetParameters(c, parameters) ==
    /\ ncalls < MaxCalls
    /\ LET s == set_parameters(clients[c], parameters)
       IN  Called("set_parameters", c, parameters, EmptyDict,
                  IF s.raised THEN Raised(s.self, "RuntimeError", <<>>)
                  ELSE Returned(s.self, NoResult, <<>>))

GetParameters(c, config) ==
    /\ ncalls < MaxCalls
    /\ Called("get_parameters", c, <<>>, config,
              Returned(clients[c], get_parameters(clients[c], config), <<>>))

Fit(c, parameters, config) ==
    /\ ncalls < MaxCalls
    /\ Called("fit", c, parameters, config,
              fit(clients[c], parameters, config))

Evaluate(c, parameters, config) ==
    /\ ncalls < MaxCalls
    /\ Called("evaluate", c, parameters, config,
              evaluate(clients[c], parameters, config))

Next ==
    \/ \E cid \in CidStrings, predictor \in RandomInit : Spawn(cid, predictor)
    \/ \E c \in 1..Len(clients), p \in ParamLists : SetParameters(c, p)
    \/ \E c \in 1..Len(clients) : GetParameters(c, EmptyDict)
    \/ \E c \in 1..Len(clients), p \in ParamLists, cfg \in Configs :
          Fit(c, p, cfg)
    \/ \E c \in 1..Len(clients), p \in ParamLists :
          Evaluate(c, p, [lr |-> 1, momentum |-> 0, local_epochs |-> 2])

Spec == Init /\ [][Next]_vars

(* ------------------------ notions of the claims ----------------------- *)

NumKeys == Len(StateKeys)

\* the parameter list has one array per state entry, each of its shape
Matches(p) ==
    /\ Len(p) = NumKeys
    /\ \A i \in 1..NumKeys : Len(p[i].data) = StateShape[StateKeys[i]]

\* the first NumKeys arrays exist and have the shapes of the state entries
PrefixMatches(p) ==
    /\ Len(p) >= NumKeys
    /\ \A i \in 1..NumKeys : Len(p[i].data) = StateShape[StateKeys[i]]

\* every element of every array is a float32 value
Representable(p) ==
    \A i \in 1..Len(p) : \A j \in 1..Len(p[i].data) : IsFloat32(p[i].data[j])

\* two lists of arrays are equal entry by entry, as numbers
ListEqual(a, b) ==
    /\ Len(a) = Len(b)
    /\ \A i \in 1..Len(a) : a[i].data = b[i].data

\* the state a model has once the i-th array, as float32, is its i-th entry
DirectState(p) ==
    [k \in KeySet |->
        LET i == CHOOSE j \in 1..NumKeys : StateKeys[j] = k
        IN  [j \in 1..Len(p[i].data) |-> ToFloat32(p[i].data[j])]]

\* the arrays read back from a model state, in key order
StateArrays(model) ==
    [i \in 1..NumKeys |-> [dtype |-> "float32", data |-> model[StateKeys[i]]]]

RECURSIVE DecimalText(_)
DecimalText(i) ==
    IF i < 10 THEN <<Digits[i + 1]>>
    ELSE Append(DecimalText(i \div 10), Digits[(i % 10) + 1])

CallNames(calls) == [i \in 1..Len(calls) |-> calls[i].fn]

Acted == IF last.op = None THEN None ELSE clients[last.client]

FitReturned == last.op = "fit" /\ last.out = "returned"

EvaluateReturned == last.op = "evaluate" /\ last.out = "returned"

(* ------------------------------- claims ------------------------------- *)

\* C1: whenever client_fn was last called with the decimal text of an index
\* i valid in both loader lists, it returned, and the client it returned is
\* the newest client, holds that cid string, trainloaders[i] and
\* valloaders[i].
C1_Factory ==
    \A i \in 0..(Min(Len(trainloaders), Len(valloaders)) - 1) :
        (spawn.out # None /\ spawn.cid = DecimalText(i)) =>
            /\ spawn.out = "returned"
            /\ spawn.index = Len(clients)
            /\ clients[spawn.index].cid = spawn.cid
            /\ clients[spawn.index].trainloader = trainloaders[i + 1]
            /\ clients[spawn.index].valloader = valloaders[i + 1]

\* a client was spawned for index 1, where the two lists hold different
\* loaders
C1_Witness ==
    /\ spawn.cid = <<"1">>
    /\ spawn.out = "returned"
    /\ Len(trainloaders) # Len(valloaders)
    /\ clients[spawn.index].trainloader # clients[spawn.index].valloader

\* C2: a fit call that returns made exactly these calls in this order:
\* set_parameters with the received parameters, the optimiser from config lr
\* and momentum, train once on the state just loaded, the client's
\* trainloader, that optimiser and config local_epochs, then get_parameters,
\* whose value (the state after training) is the first returned value.
C2_FitOrder ==
    FitReturned =>
        /\ CallNames(last.calls) =
              <<"set_parameters", "SGD", "train", "get_parameters">>
        /\ last.calls[1].args = <<last.parameters>>
        /\ last.calls[2].args = <<last.config["lr"], last.config["momentum"]>>
        /\ last.calls[3].args =
              << DirectState(last.parameters), Acted.trainloader,
                 [lr |-> last.config["lr"],
                  momentum |-> last.config["momentum"]],
                 last.config["local_epochs"] >>
        /\ Acted.model = Train(last.calls[3].args[1], last.calls[3].args[2],
                               last.calls[3].args[3], last.calls[3].args[4])
        /\ last.result[1] = StateArrays(Acted.model)

C2_Witness ==
    /\ FitReturned
    /\ last.config["local_epochs"] = 3
    /\ Acted.model # last.pre
    /\ Acted.model # DirectState(last.parameters)

\* C3: a fit call that returns gives three values, the second being the
\* number of training examples of the client and the third an empty
\* dictionary.
C3_ExampleCount ==
    FitReturned =>
        /\ Len(last.result) = 3
        /\ last.result[2] = Acted.trainloader.examples
        /\ last.result[3] = EmptyDict

\* C4 as stated: a parameter list that does not match the model's state (in
\* the number of arrays or in a shape) makes set_parameters, fit and
\* evaluate raise, with no result.
C4_AnyMismatchRaises ==
    (last.op \in {"set_parameters", "fit", "evaluate"}
        /\ ~Matches(last.parameters)) =>
            last.out = "raised" /\ last.result = NoResult

\* C4 amended: a list with fewer arrays than state entries, or with a wrong
\* shape among its first NumKeys arrays, makes set_parameters, fit and
\* evaluate raise RuntimeError with no result and without training or
\* testing; a list whose first NumKeys arrays have the right shapes never
\* raises in set_parameters, whatever follows them.
C4_PrefixMismatchRaises ==
    last.op \in {"set_parameters", "fit", "evaluate"} =>
        /\ ~PrefixMatches(last.parameters) =>
              /\ last.out = "raised"
              /\ last.err = "RuntimeError"
              /\ last.result = NoResult
              /\ \A i \in 1..Len(last.calls) :
                    last.calls[i].fn = "set_parameters"
        /\ PrefixMatches(last.parameters) => last.err # "RuntimeError"

C4_Witness ==
    /\ last.op = "evaluate"
    /\ Len(last.parameters) = NumKeys
    /\ ~Matches(last.parameters)
    /\ last.out = "raised"

\* C5: the parameters fit returns are those of a model given the received
\* parameters directly, trained by the library on the train partition with
\* the configured optimiser; the loss evaluate returns is the library's test
\* loss of a model given the received parameters, on the validation
\* partition.  Both are functions of parameters, config and data alone.
C5_Direct ==
    /\ FitReturned =>
          last.result[1] =
              StateArrays(Train(DirectState(last.parameters),
                                Acted.trainloader,
                                [lr |-> last.config["lr"],
                                 momentum |-> last.config["momentum"]],
                                last.config["local_epochs"]))
    /\ EvaluateReturned =>
          last.result[1] =
              Test(DirectState(last.parameters), Acted.valloader)[1]

C5_Witness ==
    /\ EvaluateReturned
    /\ ~Representable(last.parameters)
    /\ last.pre # DirectState(last.parameters)

\* C6 as stated: after set_parameters(p) with p matching the model,
\* get_parameters returns a list equal to p.
C6_RoundTripAny ==
    (last.op = "set_parameters" /\ Matches(last.parameters)) =>
        /\ last.out = "returned"
        /\ ListEqual(get_parameters(Acted, EmptyDict), last.parameters)

\* C6 amended: after set_parameters(p) with p matching the model,
\* get_parameters returns, in key order, the float32 roundings of the
\* arrays of p, a list equal to p when every element of p is a float32
\* value; and set_parameters(get_parameters(config)) does not raise and
\* leaves the state of every client unchanged.
C6_RoundTripFloat32 ==
    /\ (last.op = "set_parameters" /\ Matches(last.parameters)) =>
          /\ last.out = "returned"
          /\ get_parameters(Acted, EmptyDict)
                = StateArrays(DirectState(last.parameters))
          /\ Representable(last.parameters) =>
                ListEqual(get_parameters(Acted, EmptyDict), last.parameters)
    /\ \A c \in 1..Len(clients) :
          set_parameters(clients[c], get_parameters(clients[c], EmptyDict))
             = [self |-> clients[c], raised |-> FALSE]
    /\ last.op = "get_parameters" =>
          set_parameters(Acted, last.result).self = Acted

C6_Witness ==
    /\ last.op = "set_parameters"
    /\ Matches(last.parameters)
    /\ Representable(last.parameters)
    /\ last.pre # Acted.model
    /\ last.parameters[1].data[1] # last.parameters[1].data[2]

\* C7: an evaluate call that returns loaded the received parameters, then
\* ran test once on the loaded state and the client's valloader, and
\* returns (loss, len(valloader), metrics) with metrics holding exactly cid,
\* the client's identifier, and mean_loss, the second value of test.
C7_Evaluate ==
    EvaluateReturned =>
        /\ CallNames(last.calls) = <<"set_parameters", "test">>
        /\ last.calls[1].args = <<last.parameters>>
        /\ last.calls[2].args =
              <<DirectState(last.parameters), Acted.valloader>>
        /\ last.result =
              << Test(last.calls[2].args[1], Acted.valloader)[1],
                 LoaderLen(Acted.valloader),
                 [cid |-> Acted.cid,
                  mean_loss |-> Test(last.calls[2].args[1],
                                     Acted.valloader)[2]] >>
        /\ DOMAIN last.result[3] = {"cid", "mean_loss"}

C7_Witness ==
    /\ EvaluateReturned
    /\ Acted.cid = <<"1">>
    /\ last.result[1] # last.result[3].mean_loss
    /\ LoaderLen(Acted.valloader) # LoaderLen(Acted.trainloader)

\* model states a client may hold: any initial one, any held by a client
\* now, and constant ones
OtherStates ==
    RandomInit
    \cup {clients[i].model : i \in 1..Len(clients)}
    \cup { [k \in KeySet |-> [i \in 1..StateShape[k] |-> c]] : c \in 0..2 }

\* C8: the outcome of a fit or evaluate call with matching parameters is
\* the outcome the same call has on a client with the same data partitions
\* and any other model state.
C8_HistoryIndependent ==
    (last.op \in {"fit", "evaluate"} /\ Matches(last.parameters)) =>
        \A m \in OtherStates :
            LET other == [Acted EXCEPT !.model = m]
                there == IF last.op = "fit"
                         THEN fit(other, last.parameters, last.config)
                         ELSE evaluate(other, last.parameters, last.config)
            IN  /\ there.out = last.out
                /\ there.err = last.err
                /\ there.result = last.result

\* fit returned on one of two clients of the same partitions whose states
\* differed before the call
C8_Witness ==
    /\ FitReturned
    /\ Matches(last.parameters)
    /\ \E j \in 1..Len(clients) :
          /\ j # last.client
          /\ clients[j].trainloader = Acted.trainloader
          /\ clients[j].valloader = Acted.valloader
          /\ clients[j].model # last.pre

\* C9 as stated, its first part: after an evaluate call that returns, the
\* model's state equals the received parameters.
C9_StateIsReceived ==
    EvaluateReturned =>
        ListEqual(StateArrays(Acted.model), last.parameters)

\* what a step leaves alone: the identity and data of every client, and on
\* a call everything about the clients it was not made on
FrameStep ==
    /\ \A i \in 1..Len(clients) :
          /\ i <= Len(clients')
          /\ clients'[i].cid = clients[i].cid
          /\ clients'[i].trainloader = clients[i].trainloader
          /\ clients'[i].valloader = clients[i].valloader
    /\ ncalls' # ncalls =>
          /\ Len(clients') = Len(clients)
          /\ \A i \in 1..Len(clients) :
                i # last'.client => clients'[i] = clients[i]
          /\ last'.op = "get_parameters" => clients' = clients

\* C9 amended: after an evaluate call that returns, the model's state is the
\* float32 rounding of the first NumKeys received arrays (not a trained
\* state); get_parameters leaves the state unchanged; no call changes the
\* cid, trainloader or valloader of a client, nor anything of another
\* client.
C9_Frame ==
    /\ [](EvaluateReturned => Acted.model = DirectState(last.parameters))
    /\ [](last.op = "get_parameters" => Acted.model = last.pre)
    /\ [][FrameStep]_vars

\* evaluate returned on one of two clients and changed its state
C9_Witness ==
    /\ EvaluateReturned
    /\ Len(clients) = 2
    /\ Acted.model # last.pre
    /\ Acted.model = DirectState(last.parameters)

\* C10: a fit call with matching parameters and a config lacking lr,
\* momentum or local_epochs raises KeyError before the optimiser is made
\* and train is called, returns nothing, and leaves the model holding the
\* received parameters.
C10_MissingKey ==
    (last.op = "fit" /\ Matches(last.parameters)
        /\ ~(ConfigKeys \subseteq DOMAIN last.config)) =>
            /\ last.out = "raised"
            /\ last.err = "KeyError"
            /\ last.result = NoResult
            /\ CallNames(last.calls) = <<"set_parameters">>
            /\ Acted.model = DirectState(last.parameters)

C10_Witness ==
    /\ last.op = "fit"
    /\ Matches(last.parameters)
    /\ ~HasKey(last.config, "local_epochs")
    /\ last.out = "raised"
    /\ Acted.model # last.pre

====
